---- MODULE Spec2Model ----
(***************************************************************************)
(* A model of the versioned file store of src/fileserver/app.py: the path  *)
(* helper safe_path, the revision counter (read_head, write_head,          *)
(* bump_rev), the file handlers (fs_list, fs_read, fs_write, fs_rename,    *)
(* fs_delete), fs_snapshot and the revision handlers (rev_list,            *)
(* rev_create, rev_file), run by the request threads of the server.        *)
(*                                                                         *)
(* A path string is the sequence of its '/'-separated segments; the empty  *)
(* string is the empty sequence.  File content is a sequence of            *)
(* one-character strings.  The file system is a function from normalised   *)
(* paths, relative to the working directory of the process, to nodes.      *)
(* Modelled for a POSIX host (os.linesep is "\n", rename replaces).        *)
(***************************************************************************)
EXTENDS Integers, Sequences, FiniteSets, TLC

(***************************************************************************)
(* Bounds of the model.                                                    *)
(***************************************************************************)
NumProcs == 2
MaxCalls == 2
MaxCallsSeq == 3
MaxCallsAlloc == 2

Procs == 1..NumProcs

VARIABLES
  fs,        \* the file system: normalised path -> node
  pc,        \* per request thread: the step its handler is at
  req,       \* per request thread: the request being served
  loc,       \* per request thread: the handler's local variables
  resp,      \* per request thread: the response of a finished handler
  calls,     \* number of requests accepted so far
  allocLog,  \* history: the numbers bump_rev returned, in the order of its returns
  retLog,    \* history: the ids snapshot / import responses carried, in response order
  alone      \* history: no other request overlapped the thread's current request

vars == <<fs, pc, req, loc, resp, calls, allocLog, retLog, alone>>

(***************************************************************************)
(* Paths.                                                                  *)
(***************************************************************************)
STORAGE_ROOT == <<".", "decisions">>

IsAbs(p) == Len(p) >= 2 /\ p[1] = ""

\* os.path.join(a, b): an absolute b discards a.
join(a, b) == IF IsAbs(b) THEN b ELSE a \o b

RECURSIVE NormComps(_, _, _)
NormComps(abs, acc, rest) ==
  IF rest = <<>> THEN acc
  ELSE LET comp == Head(rest) IN
    IF comp = "" \/ comp = "." THEN NormComps(abs, acc, Tail(rest))
    ELSE IF \/ comp # ".."
            \/ (~abs /\ acc = <<>>)
            \/ (acc # <<>> /\ acc[Len(acc)] = "..")
         THEN NormComps(abs, Append(acc, comp), Tail(rest))
    ELSE IF acc # <<>>
         THEN NormComps(abs, SubSeq(acc, 1, Len(acc) - 1), Tail(rest))
    ELSE NormComps(abs, acc, Tail(rest))

\* os.path.normpath: "." for an empty result, a leading "" segment for an absolute one.
normpath(p) ==
  LET comps == NormComps(IsAbs(p), <<>>, p) IN
    IF IsAbs(p) THEN <<"">> \o (IF comps = <<>> THEN <<"">> ELSE comps)
    ELSE IF comps = <<>> THEN <<".">> ELSE comps

safe_path(sub) == normpath(join(STORAGE_ROOT, sub))

\* os.path.dirname of a normalised path ("" for a single relative segment).
dirname(p) ==
  IF IsAbs(p) THEN (IF Len(p) = 2 THEN <<"", "">> ELSE SubSeq(p, 1, Len(p) - 1))
  ELSE IF Len(p) <= 1 THEN <<>>
  ELSE SubSeq(p, 1, Len(p) - 1)

RootDir == safe_path(<<>>)
head_path == normpath(join(STORAGE_ROOT, <<"HEAD">>))

InsideRoot(t) == Len(t) >= Len(RootDir) /\ SubSeq(t, 1, Len(RootDir)) = RootDir

(***************************************************************************)
(* The file system.                                                        *)
(***************************************************************************)
DirNode == [isDir |-> TRUE, data |-> <<>>]
FileNode(c) == [isDir |-> FALSE, data |-> c]

exists(f, p) == p \in DOMAIN f
isdir(f, p) == p \in DOMAIN f /\ f[p].isDir
isfile(f, p) == p \in DOMAIN f /\ ~f[p].isDir

\* q is p or lies beneath p.  The working directory "." holds every relative
\* path that does not climb out of it.
Within(p, q) ==
  IF p = <<".">> THEN q = <<".">> \/ (q # <<>> /\ q[1] \notin {"..", ""})
  ELSE Len(p) <= Len(q) /\ SubSeq(q, 1, Len(p)) = p

Subtree(f, p) == {q \in DOMAIN f : Within(p, q)}
\* The names os.listdir / os.scandir find in directory p.
Entries(f, p) ==
  IF p = <<".">> THEN {q[1] : q \in {r \in DOMAIN f : Len(r) = 1 /\ r \notin {<<".">>, <<"..">>}}}
  ELSE {q[Len(q)] : q \in {r \in DOMAIN f : Len(r) = Len(p) + 1 /\ Within(p, r)}}

\* os.path.join(dir, name) of a normalised directory and an entry name.
Child(p, name) == IF p = <<".">> THEN <<name>> ELSE Append(p, name)

\* The directory a relative open() or mkdir() of p is made in exists.
ParentIsDir(f, p) == dirname(p) = <<>> \/ isdir(f, dirname(p))

Ok(f) == [ok |-> TRUE, fs |-> f]
Err(f) == [ok |-> FALSE, fs |-> f]

\* os.makedirs(p, exist_ok): the missing ancestors of p and p itself.
makedirs(f, p, exist_ok) ==
  LET first == IF IsAbs(p) THEN 2 ELSE 1
      pre == {SubSeq(p, 1, k) : k \in first..Len(p)} IN
    IF p = <<>> THEN Err(f)
    ELSE IF \E q \in pre : isfile(f, q) THEN Err(f)
    ELSE IF exists(f, p) /\ ~exist_ok THEN Err(f)
    ELSE Ok([q \in DOMAIN f \cup pre |-> IF q \in DOMAIN f THEN f[q] ELSE DirNode])

Remove(f, gone) == [q \in DOMAIN f \ gone |-> f[q]]

\* open(p, "w"): creates the file or truncates it.
open_w(f, p) ==
  IF isdir(f, p) \/ ~ParentIsDir(f, p) THEN Err(f)
  ELSE Ok([q \in DOMAIN f \cup {p} |-> IF q = p THEN FileNode(<<>>) ELSE f[q]])

\* A write of c at offset 0 of an open file: the bytes beyond Len(c) stay.
WriteAt0(old, c) == c \o SubSeq(old, Len(c) + 1, Len(old))

\* A write that also lands on the file of the same relative path in every
\* other directory of the storage root, as it would if revisions shared their
\* files through links.
flush_linked(f, p, c) ==
  LET rel(q) == IF Len(q) >= 3 /\ q[1] = p[1] THEN SubSeq(q, 3, Len(q)) ELSE <<>> IN
    [q \in DOMAIN f |->
       IF q = p \/ (rel(p) # <<>> /\ rel(q) = rel(p) /\ ~f[q].isDir)
       THEN FileNode(WriteAt0(f[q].data, c)) ELSE f[q]]

\* f.write(c) and the close that flushes it, on a file opened with open_w.
flush(f, p, c) == [f EXCEPT ![p] = FileNode(WriteAt0(f[p].data, c))]

\* Text-mode read: universal newlines turn "\r\n" and "\r" into "\n".
RECURSIVE read_text(_)
read_text(s) ==
  IF s = <<>> THEN <<>>
  ELSE IF Head(s) = "\r"
       THEN IF Len(s) >= 2 /\ s[2] = "\n" THEN <<"\n">> \o read_text(Tail(Tail(s)))
            ELSE <<"\n">> \o read_text(Tail(s))
  ELSE <<Head(s)>> \o read_text(Tail(s))

\* A text-mode write whose bytes never reach the file.
write_text_lost(c) == <<>>

\* Text-mode write on a POSIX host: "\n" is written as os.linesep = "\n".
write_text(c) == c

\* os.rename(src, dst) on POSIX.
rename(f, src, dst) ==
  IF ~exists(f, src) \/ ~ParentIsDir(f, dst) THEN Err(f)
  ELSE IF src = <<".">> \/ dst = <<".">> THEN Err(f)
  ELSE IF src = dst THEN Ok(f)
  ELSE IF Within(src, dst) THEN Err(f)
  ELSE IF isdir(f, src) /\ exists(f, dst) /\ (isfile(f, dst) \/ Subtree(f, dst) # {dst}) THEN Err(f)
  ELSE IF isfile(f, src) /\ isdir(f, dst) THEN Err(f)
  ELSE LET moved == Subtree(f, src)
           kept == (DOMAIN f \ moved) \ {dst}
           to(q) == dst \o SubSeq(q, Len(src) + 1, Len(q))
           new == {to(q) : q \in moved} IN
       Ok([q \in kept \cup new |->
             IF q \in new THEN f[CHOOSE r \in moved : to(r) = q] ELSE f[q]])

(***************************************************************************)
(* The revision counter.                                                   *)
(***************************************************************************)
Digits == <<"0", "1", "2", "3", "4", "5", "6", "7", "8", "9">>
IsDigit(c) == \E i \in 1..10 : Digits[i] = c
DigitVal(c) == (CHOOSE i \in 1..10 : Digits[i] = c) - 1
IsSpace(c) == c \in {" ", "\n", "\r", "\t"}

RECURSIVE lstrip(_)
lstrip(s) == IF s # <<>> /\ IsSpace(Head(s)) THEN lstrip(Tail(s)) ELSE s
RECURSIVE rstrip(_)
rstrip(s) ==
  IF s # <<>> /\ IsSpace(s[Len(s)]) THEN rstrip(SubSeq(s, 1, Len(s) - 1)) ELSE s
strip(s) == rstrip(lstrip(s))

RECURSIVE DecVal(_)
DecVal(s) == IF s = <<>> THEN 0 ELSE 10 * DecVal(SubSeq(s, 1, Len(s) - 1)) + DigitVal(s[Len(s)])

\* int(s) of a string of decimal digits (the only numerals the model's alphabet writes).
ParseInt(s) ==
  IF s # <<>> /\ \A i \in 1..Len(s) : IsDigit(s[i])
  THEN [ok |-> TRUE, n |-> DecVal(s)]
  ELSE [ok |-> FALSE, n |-> 0]

\* str(n) for n >= 0, as file content and as a path segment.
RECURSIVE str(_)
str(n) == IF n < 10 THEN <<Digits[n + 1]>> ELSE str(n \div 10) \o <<Digits[(n % 10) + 1]>>
RECURSIVE Concat(_)
Concat(s) == IF s = <<>> THEN "" ELSE Head(s) \o Concat(Tail(s))
\* str(n) used as a relative path: one segment.
str2path(n) == <<Concat(str(n))>>
RevPath(n) == safe_path(str2path(n))

\* read_head: open(head_path) and int(f.read().strip()).
read_head(f) ==
  IF ~isfile(f, head_path) THEN [ok |-> FALSE, n |-> 0]
  ELSE ParseInt(strip(read_text(f[head_path].data)))

\* bump_rev's makedirs as it would be with exist_ok=True: an existing revision
\* directory is accepted.
bump_mkdir_exist_ok(f, n) == makedirs(f, RevPath(n), TRUE)

\* bump_rev's os.makedirs(os.path.join(STORAGE_ROOT, str(n)), exist_ok=False).
bump_mkdir(f, n) == makedirs(f, RevPath(n), FALSE)

(***************************************************************************)
(* Copying and extraction.                                                 *)
(***************************************************************************)
\* The tree beneath base: relative path -> node, as a set of pairs.
RelTree(f, base) ==
  {<<SubSeq(q, Len(base) + 1, Len(q)), f[q]>> : q \in Subtree(f, base) \ {base}}

\* shutil.copytree(s, d): d must not exist.
copytree(f, s, d) ==
  IF ~isdir(f, s) \/ exists(f, d) \/ ~ParentIsDir(f, d) THEN Err(f)
  ELSE LET from == Subtree(f, s)
           to(q) == d \o SubSeq(q, Len(s) + 1, Len(q))
           new == {to(q) : q \in from} IN
       Ok([q \in DOMAIN f \cup new |->
             IF q \in new THEN f[CHOOSE r \in from : to(r) = q] ELSE f[q]])

\* copy2 as it would be if only the file were created and no bytes copied.
copy2_empty(f, s, d) ==
  LET target == IF isdir(f, d) THEN Append(d, s[Len(s)]) ELSE d IN
    IF ~isfile(f, s) \/ isdir(f, target) \/ ~ParentIsDir(f, target) THEN Err(f)
    ELSE Ok([q \in DOMAIN f \cup {target} |-> IF q = target THEN FileNode(<<>>) ELSE f[q]])

\* shutil.copy2(s, d): into d when d is a directory; the bytes as they are.
copy2(f, s, d) ==
  LET target == IF isdir(f, d) THEN Append(d, s[Len(s)]) ELSE d IN
    IF ~isfile(f, s) \/ isdir(f, target) \/ ~ParentIsDir(f, target) THEN Err(f)
    ELSE Ok([q \in DOMAIN f \cup {target} |-> IF q = target THEN FileNode(f[s].data) ELSE f[q]])

\* One pass of fs_snapshot's loop body for entry name.
copy_item(f, src, dst, name) ==
  IF isdir(f, Append(src, name))
  THEN copytree(f, Append(src, name), Append(dst, name))
  ELSE copy2(f, Append(src, name), Append(dst, name))

\* ZipFile.extractall(dest) for the file members ents, in archive order;
\* the first member that cannot be written ends the extraction.
RECURSIVE extractall(_, _, _)
extractall(f, dest, ents) ==
  IF ents = <<>> THEN Ok(f)
  ELSE LET target == dest \o Head(ents).name
           upper == dirname(target)
           made == IF exists(f, upper) THEN Ok(f) ELSE makedirs(f, upper, FALSE)
           opened == open_w(made.fs, target) IN
       IF ~made.ok THEN Err(f)
       ELSE IF ~opened.ok THEN Err(made.fs)
       ELSE extractall(flush(opened.fs, target, Head(ents).data), dest, Tail(ents))

\* zip_bytes_to_folder: base64.b64decode and ZipFile() raise on a payload that
\* is no archive, before anything is written.
zip_bytes_to_folder(f, payload, dest) ==
  IF ~payload.valid THEN Err(f) ELSE extractall(f, dest, payload.members)

(***************************************************************************)
(* Listing.                                                                *)
(***************************************************************************)
\* str.lower() of the names the model uses.
lower(name) == CASE name = "A" -> "a" [] name = "HEAD" -> "head" [] OTHER -> name

\* The lower-cased names in code-point order.
NameOrder == <<"0", "1", "2", "3", "4", "5", "a", "b", "d", "decisions", "head", "x">>
Rank(s) == CHOOSE i \in 1..Len(NameOrder) : NameOrder[i] = s

\* The sort key (not isDirectory, name.lower()), compared as Python compares tuples.
KeyLess(a, b) ==
  \/ (a.isDirectory /\ ~b.isDirectory)
  \/ (a.isDirectory = b.isDirectory /\ Rank(lower(a.name)) < Rank(lower(b.name)))

\* list.sort is stable: an element goes after those that do not sort after it.
RECURSIVE InsertStable(_, _)
InsertStable(x, s) ==
  IF s = <<>> THEN <<x>>
  ELSE IF KeyLess(x, Head(s)) THEN <<x>> \o s
  ELSE <<Head(s)>> \o InsertStable(x, Tail(s))
RECURSIVE SortFrom(_, _)
SortFrom(done, rest) ==
  IF rest = <<>> THEN done ELSE SortFrom(InsertStable(Head(rest), done), Tail(rest))
sort_nodes(s) == SortFrom(<<>>, s)

\* os.scandir(p): the entries of p in the order the file system hands them
\* out, here the order of enum (a sequence holding every name once).
RECURSIVE Filter(_, _)
Filter(enum, names) ==
  IF enum = <<>> THEN <<>>
  ELSE IF Head(enum) \in names THEN <<Head(enum)>> \o Filter(Tail(enum), names)
  ELSE Filter(Tail(enum), names)
scandir(f, p, enum) == Filter(enum, Entries(f, p))

\* os.path.join(rel_path, entry.name).
node_path(rel, name) ==
  IF rel = <<>> THEN <<name>>
  ELSE IF rel[Len(rel)] = "" THEN SubSeq(rel, 1, Len(rel) - 1) \o <<name>>
  ELSE Append(rel, name)

\* The nodes carry name, path, isDirectory, size (-1 for None) and children;
\* the modification time is left out.
RECURSIVE build_tree(_, _, _, _)
build_tree(f, root_path, rel_path, enum) ==
  LET it == scandir(f, root_path, enum)
      node(name) ==
        LET full == Child(root_path, name) IN
          [name |-> name,
           path |-> node_path(rel_path, name),
           isDirectory |-> f[full].isDir,
           size |-> IF f[full].isDir THEN -1 ELSE Len(f[full].data),
           children |-> IF f[full].isDir
                        THEN build_tree(f, full, node_path(rel_path, name), enum)
                        ELSE <<>>]
  IN sort_nodes([i \in 1..Len(it) |-> node(it[i])])

(***************************************************************************)
(* Requests, locals and responses.                                         *)
(***************************************************************************)
NoPayload == [valid |-> FALSE, members |-> <<>>]
Request(op, path, to, content, payload, rev) ==
  [op |-> op, path |-> path, to |-> to, content |-> content, payload |-> payload, rev |-> rev]
NoReq == Request("none", <<>>, <<>>, <<>>, NoPayload, 0)

NoLoc ==
  [src |-> <<>>, n |-> 0, names |-> {}, h |-> <<>>, attached |-> FALSE,
   tree |-> {}, absent |-> FALSE]

Response(status, err) ==
  [status |-> status, err |-> err, text |-> <<>>, id |-> 0, nodes |-> <<>>, list |-> <<>>]
NoResp == Response(0, "")
\* abort(404).
NotFound == Response(404, "NotFound")
\* An exception no handler catches: the server answers 500.
Raised(err) == Response(500, err)

\* The first step of each handler.
Entry(op) ==
  CASE op = "list" -> "fs_list"
    [] op = "read" -> "fs_read"
    [] op = "write" -> "fs_write"
    [] op = "rename" -> "fs_rename"
    [] op = "delete" -> "fs_delete"
    [] op = "snapshot" -> "fs_snapshot"
    [] op = "import" -> "bump_read"
    [] op = "revisions" -> "rev_list"
    [] op = "file" -> "rev_file"

Init ==
  /\ fs = [q \in {<<".">>, <<"..">>, RootDir, RevPath(0), head_path} |->
             IF q = head_path THEN FileNode(str(0)) ELSE DirNode]
  /\ pc = [p \in Procs |-> "idle"]
  /\ req = [p \in Procs |-> NoReq]
  /\ loc = [p \in Procs |-> NoLoc]
  /\ resp = [p \in Procs |-> NoResp]
  /\ calls = 0
  /\ allocLog = <<>>
  /\ retLog = <<>>
  /\ alone = [p \in Procs |-> TRUE]

Goto(p, label) == pc' = [pc EXCEPT ![p] = label]
Reply(p, r) == /\ pc' = [pc EXCEPT ![p] = "done"]
               /\ resp' = [resp EXCEPT ![p] = r]

\* History kept in loc: tree, the source revision as the store holds it when a
\* snapshot request arrives; absent, whether the request's path was missing then.
TreeAtCall(f) ==
  LET h == read_head(f) IN IF h.ok THEN RelTree(f, RevPath(h.n)) ELSE {}

\* A request thread takes request r; threads are taken in order of their number.
Begin(p, r, max) ==
  /\ pc[p] = "idle"
  /\ calls < max
  /\ \A q \in Procs : q < p => pc[q] # "idle"
  /\ calls' = calls + 1
  /\ req' = [req EXCEPT ![p] = r]
  /\ loc' = [loc EXCEPT ![p] =
               [NoLoc EXCEPT !.tree = IF r.op = "snapshot" THEN TreeAtCall(fs) ELSE {},
                             !.absent = ~exists(fs, safe_path(r.path))]]
  /\ Goto(p, Entry(r.op))
  /\ alone' = [q \in Procs |-> IF q = p THEN \A o \in Procs \ {p} : pc[o] = "idle" ELSE FALSE]
  /\ UNCHANGED <<fs, resp, allocLog, retLog>>

\* The response has been sent; the thread is free again.
Finish(p) ==
  /\ pc[p] = "done"
  /\ Goto(p, "idle")
  /\ req' = [req EXCEPT ![p] = NoReq]
  /\ loc' = [loc EXCEPT ![p] = NoLoc]
  /\ resp' = [resp EXCEPT ![p] = NoResp]
  /\ alone' = [alone EXCEPT ![p] = TRUE]
  /\ UNCHANGED <<fs, calls, allocLog, retLog>>

(***************************************************************************)
(* The file handlers.                                                      *)
(***************************************************************************)
\* What fs_read answers on file system f.
ReadReply(f, path) ==
  LET file_path == safe_path(path) IN
    IF ~exists(f, file_path) THEN NotFound
    ELSE IF isdir(f, file_path) THEN Raised("IsADirectoryError")
    ELSE [Response(200, "") EXCEPT !.text = read_text(f[file_path].data)]

fs_read(p) ==
  /\ pc[p] = "fs_read"
  /\ Reply(p, ReadReply(fs, req[p].path))
  /\ UNCHANGED <<fs, req, loc, calls, allocLog, retLog, alone>>

\* The orders in which the file system may enumerate the names a, A, b, d;
\* the other names follow in a fixed order.
UserNames == {"a", "A", "b", "d"}
OtherNames == <<"0", "1", "2", "3", "4", "5", "HEAD", "decisions", "x">>
Perms(S) == {s \in [1..Cardinality(S) -> S] : \A i, j \in 1..Cardinality(S) : i # j => s[i] # s[j]}
Enums == {s \o OtherNames : s \in Perms(UserNames)}

ListReply(f, sub, enum) ==
  LET root == safe_path(sub) IN
    IF ~exists(f, root) THEN NotFound
    ELSE IF isfile(f, root) THEN Raised("NotADirectoryError")
    ELSE [Response(200, "") EXCEPT !.nodes = build_tree(f, root, sub, enum)]

fs_list(p) ==
  /\ pc[p] = "fs_list"
  /\ \E enum \in Enums : Reply(p, ListReply(fs, req[p].path, enum))
  /\ UNCHANGED <<fs, req, loc, calls, allocLog, retLog, alone>>

\* fs_write up to the open: makedirs of the parent, then open(target, "w").
fs_write(p) ==
  /\ pc[p] = "fs_write"
  /\ LET target == safe_path(req[p].path)
         made == makedirs(fs, dirname(target), TRUE)
         opened == open_w(made.fs, target) IN
       IF ~made.ok THEN fs' = fs /\ Reply(p, Raised("FileNotFoundError")) /\ loc' = loc
       ELSE IF ~opened.ok THEN fs' = made.fs /\ Reply(p, Raised("IsADirectoryError")) /\ loc' = loc
       ELSE /\ fs' = opened.fs
            /\ Goto(p, "write_flush")
            /\ loc' = [loc EXCEPT ![p].h = target, ![p].attached = TRUE]
            /\ resp' = resp
  /\ UNCHANGED <<req, calls, allocLog, retLog, alone>>

\* f.write(content) and the close: the bytes go to the open file, wherever
\* it is now; an unlinked file takes them with it.
write_flush(p) ==
  /\ pc[p] = "write_flush"
  /\ fs' = IF loc[p].attached THEN flush(fs, loc[p].h, write_text(req[p].content)) ELSE fs
  /\ Reply(p, Response(201, ""))
  /\ UNCHANGED <<req, loc, calls, allocLog, retLog, alone>>

\* Open files follow a rename of their path and lose their name when it is
\* removed or replaced.
Unlinked(gone) ==
  [q \in Procs |-> IF loc[q].attached /\ loc[q].h \in gone
                   THEN [loc[q] EXCEPT !.attached = FALSE] ELSE loc[q]]
Moved(src, dst) ==
  [q \in Procs |->
     IF ~loc[q].attached \/ src = dst THEN loc[q]
     ELSE IF Within(src, loc[q].h)
          THEN [loc[q] EXCEPT !.h = dst \o SubSeq(loc[q].h, Len(src) + 1, Len(loc[q].h))]
     ELSE IF loc[q].h = dst THEN [loc[q] EXCEPT !.attached = FALSE]
     ELSE loc[q]]

fs_rename(p) ==
  /\ pc[p] = "fs_rename"
  /\ LET src == safe_path(req[p].path)
         dst == safe_path(req[p].to)
         made == makedirs(fs, dirname(dst), TRUE)
         done == rename(made.fs, src, dst) IN
       IF ~made.ok THEN fs' = fs /\ loc' = loc /\ Reply(p, Raised("FileNotFoundError"))
       ELSE IF ~done.ok
            THEN /\ fs' = made.fs
                 /\ loc' = loc
                 /\ Reply(p, Raised(IF exists(made.fs, src) THEN "OSError" ELSE "FileNotFoundError"))
       ELSE fs' = done.fs /\ loc' = Moved(src, dst) /\ Reply(p, Response(204, ""))
  /\ UNCHANGED <<req, calls, allocLog, retLog, alone>>

fs_delete(p) ==
  /\ pc[p] = "fs_delete"
  /\ LET target == safe_path(req[p].path)
         gone == Subtree(fs, target) IN
       IF isdir(fs, target) /\ target = <<".">>
       THEN \* rmtree empties the working directory and cannot remove it
            /\ fs' = Remove(fs, gone \ {target})
            /\ loc' = Unlinked(gone)
            /\ Reply(p, Raised("OSError"))
       ELSE IF exists(fs, target)
       THEN fs' = Remove(fs, gone) /\ loc' = Unlinked(gone) /\ Reply(p, Response(204, ""))
       ELSE fs' = fs /\ loc' = loc /\ Reply(p, Raised("FileNotFoundError"))
  /\ UNCHANGED <<req, calls, allocLog, retLog, alone>>

(***************************************************************************)
(* The revision handlers.                                                  *)
(***************************************************************************)
\* fs_snapshot's src = safe_path(str(current_rev())).
fs_snapshot(p) ==
  /\ pc[p] = "fs_snapshot"
  /\ LET h == read_head(fs) IN
       IF ~h.ok THEN Reply(p, Raised("ValueError")) /\ loc' = loc
       ELSE /\ Goto(p, "bump_read")
            /\ loc' = [loc EXCEPT ![p].src = safe_path(str2path(h.n))]
            /\ resp' = resp
  /\ UNCHANGED <<fs, req, calls, allocLog, retLog, alone>>

\* bump_rev: n = current_rev() + 1.
bump_read(p) ==
  /\ pc[p] = "bump_read"
  /\ LET h == read_head(fs) IN
       IF ~h.ok THEN Reply(p, Raised("ValueError")) /\ loc' = loc
       ELSE Goto(p, "bump_makedirs") /\ loc' = [loc EXCEPT ![p].n = h.n + 1] /\ resp' = resp
  /\ UNCHANGED <<fs, req, calls, allocLog, retLog, alone>>

\* bump_rev: the directory of n is created; it must be new.
bump_makedirs(p) ==
  /\ pc[p] = "bump_makedirs"
  /\ LET made == bump_mkdir(fs, loc[p].n) IN
       IF ~made.ok THEN fs' = fs /\ Reply(p, Raised("FileExistsError@bump_rev"))
       ELSE fs' = made.fs /\ Goto(p, "head_open") /\ resp' = resp
  /\ UNCHANGED <<req, loc, calls, allocLog, retLog, alone>>

\* write_head: open(head_path, "w") leaves HEAD empty until the write.
head_open(p) ==
  /\ pc[p] = "head_open"
  /\ LET opened == open_w(fs, head_path) IN
       IF ~opened.ok THEN fs' = fs /\ Reply(p, Raised("OSError")) /\ loc' = loc
       ELSE /\ fs' = opened.fs
            /\ Goto(p, "head_write")
            /\ loc' = [loc EXCEPT ![p].h = head_path, ![p].attached = TRUE]
            /\ resp' = resp
  /\ UNCHANGED <<req, calls, allocLog, retLog, alone>>

\* write_head: f.write(str(n)); bump_rev returns n.
head_write(p) ==
  /\ pc[p] = "head_write"
  /\ fs' = IF loc[p].attached THEN flush(fs, loc[p].h, write_text(str(loc[p].n))) ELSE fs
  /\ loc' = [loc EXCEPT ![p].attached = FALSE]
  /\ allocLog' = Append(allocLog, loc[p].n)
  /\ Goto(p, IF req[p].op = "snapshot" THEN "snapshot_listdir" ELSE "rev_extract")
  /\ UNCHANGED <<req, resp, calls, retLog, alone>>

\* fs_snapshot: os.makedirs(dst, exist_ok=True) and os.listdir(src).
snapshot_listdir(p) ==
  /\ pc[p] = "snapshot_listdir"
  /\ LET dst == safe_path(str2path(loc[p].n))
         made == makedirs(fs, dst, TRUE) IN
       IF ~made.ok THEN fs' = fs /\ loc' = loc /\ Reply(p, Raised("FileExistsError"))
       ELSE IF ~isdir(made.fs, loc[p].src)
            THEN fs' = made.fs /\ loc' = loc /\ Reply(p, Raised("FileNotFoundError"))
       ELSE /\ fs' = made.fs
            /\ loc' = [loc EXCEPT ![p].names = Entries(made.fs, loc[p].src)]
            /\ Goto(p, "snapshot_copy")
            /\ resp' = resp
  /\ UNCHANGED <<req, calls, allocLog, retLog, alone>>

\* fs_snapshot: one pass of the copy loop; listdir's order is the file system's.
snapshot_copy(p) ==
  /\ pc[p] = "snapshot_copy"
  /\ loc[p].names # {}
  /\ \E name \in loc[p].names :
       LET copied == copy_item(fs, loc[p].src, safe_path(str2path(loc[p].n)), name) IN
         IF ~copied.ok THEN fs' = fs /\ loc' = loc /\ Reply(p, Raised("OSError"))
         ELSE /\ fs' = copied.fs
              /\ loc' = [loc EXCEPT ![p].names = @ \ {name}]
              /\ UNCHANGED <<pc, resp>>
  /\ UNCHANGED <<req, calls, allocLog, retLog, alone>>

\* fs_snapshot: return jsonify({"id": new_rev}).
snapshot_return(p) ==
  /\ pc[p] = "snapshot_copy"
  /\ loc[p].names = {}
  /\ Reply(p, [Response(200, "") EXCEPT !.id = loc[p].n])
  /\ retLog' = Append(retLog, loc[p].n)
  /\ UNCHANGED <<fs, req, loc, calls, allocLog, alone>>

\* rev_create after bump_rev: zip_bytes_to_folder and the response.
rev_extract(p) ==
  /\ pc[p] = "rev_extract"
  /\ LET out == zip_bytes_to_folder(fs, req[p].payload, safe_path(str2path(loc[p].n))) IN
       /\ fs' = out.fs
       /\ IF out.ok
          THEN /\ Reply(p, [Response(200, "") EXCEPT !.id = loc[p].n])
               /\ retLog' = Append(retLog, loc[p].n)
          ELSE Reply(p, Raised("BadZipFile")) /\ retLog' = retLog
  /\ UNCHANGED <<req, loc, calls, allocLog, alone>>

\* rev_list: latest = head, list = range(head + 1).
rev_list(p) ==
  /\ pc[p] = "rev_list"
  /\ LET h == read_head(fs) IN
       Reply(p, IF ~h.ok THEN Raised("ValueError")
                ELSE [Response(200, "") EXCEPT !.id = h.n, !.list = [i \in 1..(h.n + 1) |-> i - 1]])
  /\ UNCHANGED <<fs, req, loc, calls, allocLog, retLog, alone>>

\* rev_file: send_file(safe_path(f"{rev}/{path}")), the bytes as stored.
FileReply(f, rev, path) ==
  LET file_path == safe_path(str2path(rev) \o path) IN
    IF ~exists(f, file_path) THEN NotFound
    ELSE IF isdir(f, file_path) THEN Raised("IsADirectoryError")
    ELSE [Response(200, "") EXCEPT !.text = f[file_path].data]

rev_file(p) ==
  /\ pc[p] = "rev_file"
  /\ Reply(p, FileReply(fs, req[p].rev, req[p].path))
  /\ UNCHANGED <<fs, req, loc, calls, allocLog, retLog, alone>>

(***************************************************************************)
(* The requests the threads are given, and the specifications.             *)
(***************************************************************************)
Contents == {<<"x", "x">>, <<"y">>, <<"\r">>}
Paths ==
  {<<"0", "a">>, <<"0", "A">>, <<"0", "d", "a">>, <<"0", "d">>, <<"0">>,
   <<"1", "a">>, <<"HEAD">>, <<"..", "..", "x">>}
Archive == [valid |-> TRUE, members |-> <<[name |-> <<"a">>, data |-> <<"x", "x">>],
                                          [name |-> <<"d", "a">>, data |-> <<"y">>]>>]
Payloads == {Archive, NoPayload}

Reads(P) == {Request("read", path, <<>>, <<>>, NoPayload, 0) : path \in P}
Lists(P) == {Request("list", path, <<>>, <<>>, NoPayload, 0) : path \in P}
Deletes(P) == {Request("delete", path, <<>>, <<>>, NoPayload, 0) : path \in P}
Writes(P, C) == {Request("write", path, <<>>, c, NoPayload, 0) : path \in P, c \in C}
Renames(P) == {Request("rename", path, to, <<>>, NoPayload, 0) : path \in P, to \in P}
Snapshots == {Request("snapshot", <<>>, <<>>, <<>>, NoPayload, 0)}
Imports == {Request("import", <<>>, <<>>, <<>>, payload, 0) : payload \in Payloads}
Revisions == {Request("revisions", <<>>, <<>>, <<>>, NoPayload, 0)}
Files == {Request("file", path, <<>>, <<>>, NoPayload, rev) : path \in {<<"a">>, <<"d", "a">>}, rev \in {0, 1}}

AllIdle == \A q \in Procs : pc[q] = "idle"

BumpStep(p) == bump_read(p) \/ bump_makedirs(p) \/ head_open(p) \/ head_write(p)
SnapshotStep(p) ==
  fs_snapshot(p) \/ snapshot_listdir(p) \/ snapshot_copy(p) \/ snapshot_return(p)
WriteStep(p) == fs_write(p) \/ write_flush(p)

\* One request at a time, every operation.
SeqRequests ==
  Reads(Paths) \cup Lists(Paths) \cup Deletes(Paths) \cup Writes(Paths, Contents)
    \cup Renames(Paths) \cup Snapshots \cup Imports \cup Revisions \cup Files
SeqNext ==
  \E p \in Procs :
    \/ AllIdle /\ \E r \in SeqRequests : Begin(p, r, MaxCallsSeq)
    \/ fs_read(p) \/ fs_list(p) \/ WriteStep(p) \/ fs_rename(p) \/ fs_delete(p)
    \/ BumpStep(p) \/ SnapshotStep(p)
    \/ rev_extract(p) \/ rev_list(p) \/ rev_file(p)
    \/ Finish(p)
SeqSpec == Init /\ [][SeqNext]_vars

\* Concurrent threads: snapshots and the file operations that change the tree.
ConcPaths == {<<"0", "a">>, <<"0", "d", "a">>, <<"1", "a">>}
ConcContents == {<<"x", "x">>, <<"y">>}
Requests ==
  Deletes(ConcPaths) \cup Writes(ConcPaths, ConcContents) \cup Renames(ConcPaths) \cup Snapshots
Next ==
  \E p \in Procs :
    \/ \E r \in Requests : Begin(p, r, MaxCalls)
    \/ WriteStep(p) \/ fs_rename(p) \/ fs_delete(p)
    \/ BumpStep(p) \/ SnapshotStep(p)
    \/ Finish(p)
Spec == Init /\ [][Next]_vars

\* Concurrent threads: the calls that allocate a revision, and nothing else.
AllocRequests == Snapshots \cup Imports
AllocNext ==
  \E p \in Procs :
    \/ \E r \in AllocRequests : Begin(p, r, MaxCallsAlloc)
    \/ BumpStep(p) \/ SnapshotStep(p) \/ rev_extract(p)
    \/ Finish(p)
AllocSpec == Init /\ [][AllocNext]_vars

\* Listings of the trees that writes of a, A, b, d/a and d/A can build in revision 0.
MaxCallsList == 1
ListFiles == {<<"a">>, <<"A">>, <<"b">>, <<"d", "a">>, <<"d", "A">>}
RECURSIVE Populated(_, _)
Populated(f, S) ==
  IF S = {} THEN f
  ELSE LET rel == CHOOSE r \in S : TRUE
           target == RevPath(0) \o rel
           made == makedirs(f, dirname(target), TRUE) IN
       Populated(flush(open_w(made.fs, target).fs, target, <<"x">>), S \ {rel})
ListInit ==
  /\ fs \in {Populated([q \in {<<".">>, <<"..">>, RootDir, RevPath(0), head_path} |->
                         IF q = head_path THEN FileNode(str(0)) ELSE DirNode], S) :
             S \in SUBSET ListFiles}
  /\ pc = [p \in Procs |-> "idle"]
  /\ req = [p \in Procs |-> NoReq]
  /\ loc = [p \in Procs |-> NoLoc]
  /\ resp = [p \in Procs |-> NoResp]
  /\ calls = 0
  /\ allocLog = <<>>
  /\ retLog = <<>>
  /\ alone = [p \in Procs |-> TRUE]
ListNext ==
  \E p \in Procs :
    \/ AllIdle /\ \E r \in Lists({<<>>, <<"0">>, <<"0", "d">>}) : Begin(p, r, MaxCallsList)
    \/ fs_list(p)
    \/ Finish(p)
ListSpec == ListInit /\ [][ListNext]_vars

\* Concurrent snapshots and nothing else, on a store whose revision 0 holds
\* what writes of a and d/a have left there.
MaxCallsSnap == 2
SnapFiles == {<<"a">>, <<"d", "a">>}
FreshStore ==
  [q \in {<<".">>, <<"..">>, RootDir, RevPath(0), head_path} |->
     IF q = head_path THEN FileNode(str(0)) ELSE DirNode]
SnapInit ==
  /\ fs \in {Populated(FreshStore, S) : S \in SUBSET SnapFiles}
  /\ pc = [p \in Procs |-> "idle"]
  /\ req = [p \in Procs |-> NoReq]
  /\ loc = [p \in Procs |-> NoLoc]
  /\ resp = [p \in Procs |-> NoResp]
  /\ calls = 0
  /\ allocLog = <<>>
  /\ retLog = <<>>
  /\ alone = [p \in Procs |-> TRUE]
SnapNext ==
  \E p \in Procs :
    \/ \E r \in Snapshots : Begin(p, r, MaxCallsSnap)
    \/ BumpStep(p) \/ SnapshotStep(p)
    \/ Finish(p)
SnapSpec == SnapInit /\ [][SnapNext]_vars

(***************************************************************************)
(* Properties.                                                             *)
(***************************************************************************)
Answered(p, op) == pc[p] = "done" /\ req[p].op = op
FileOps == {"read", "write", "rename", "delete", "list"}

\* C1 (as stated): the ids the successful snapshot and import calls return,
\* taken in the order the calls complete, are 1, 2, ..., k.
C1_ReturnedInCompletionOrder == \A i \in 1..Len(retLog) : retLog[i] = i

\* C1 (amended): the numbers bump_rev hands out, taken in the order of its
\* returns, are 1, 2, ..., k: increasing, no duplicate, no gap.
C1_AllocatedInOrder == \A i \in 1..Len(allocLog) : allocLog[i] = i

\* C1 witness: two allocations have succeeded while requests overlapped.
C1_Witness ==
  /\ Len(allocLog) >= 2
  /\ \E p \in Procs : pc[p] # "idle" /\ ~alone[p]

\* C2: no snapshot or import ends in the allocation conflict (the directory
\* of the next number exists already), so concurrent snapshots all succeed.
C2_NoAllocationConflict ==
  \A p \in Procs : resp[p].err # "FileExistsError@bump_rev"

\* C3: a request's path resolves inside the storage root or the request is
\* refused with PathEscape, and nothing outside the root is created or changed.
C3_NoEscape ==
  /\ \A p \in Procs :
       (pc[p] = "done" /\ req[p].op \in FileOps)
         => (InsideRoot(safe_path(req[p].path)) \/ resp[p].err = "PathEscape")
  /\ \A q \in DOMAIN fs : InsideRoot(q) \/ q \in {<<".">>, <<"..">>}

\* The numbered directories under the storage root.
RevisionDirs ==
  {name \in Entries(fs, RootDir) :
     isdir(fs, Append(RootDir, name)) /\ \A i \in 1..Len(name) : IsDigit(SubSeq(name, i, i))}

\* C4: between requests the revision directories are exactly 0..HEAD, and
\* a step that changes HEAD raises it by one.
C4_RevisionsContiguous ==
  /\ [](AllIdle =>
          /\ read_head(fs).ok
          /\ RevisionDirs = {Concat(str(i)) : i \in 0..read_head(fs).n})
  /\ [][(read_head(fs).ok /\ read_head(fs').ok /\ read_head(fs').n # read_head(fs).n)
          => read_head(fs').n = read_head(fs).n + 1]_vars

\* C5: a step of read, write, rename, delete or list leaves HEAD as it is.
C5_HeadFrame ==
  [][(\E p \in Procs : pc[p] # "done" /\ req[p].op \in FileOps)
       => (isfile(fs', head_path) /\ fs'[head_path] = fs[head_path])]_vars

\* The step on which thread p's snapshot returns its id.
SnapshotReturns(p) ==
  pc[p] = "snapshot_copy" /\ pc'[p] = "done" /\ resp'[p].status = 200

\* C6 (as stated): when snapshot() returns n, revision n holds exactly the
\* tree the source revision held when the call was made, whatever ran beside it.
C6_SnapshotIsCallTimeCopy ==
  [][\A p \in Procs :
       SnapshotReturns(p) => RelTree(fs', RevPath(resp'[p].id)) = loc[p].tree]_vars

\* C6 (amended): when snapshot() returns n and no other request overlapped
\* the call, revision n holds exactly the tree the source revision held when
\* the call was made.
C6_SnapshotAloneIsCopy ==
  [][\A p \in Procs :
       (SnapshotReturns(p) /\ alone[p])
         => RelTree(fs', RevPath(resp'[p].id)) = loc[p].tree]_vars

\* C6 witness: an undisturbed snapshot of a revision that holds a file has returned.
C6_Witness ==
  \E p \in Procs :
    /\ Answered(p, "snapshot") /\ resp[p].status = 200 /\ alone[p]
    /\ \E e \in loc[p].tree : ~e[2].isDir

\* C7: right after write(p, c) has answered, read(p) answers exactly c.
C7_WriteReadRoundTrip ==
  \A p \in Procs :
    (Answered(p, "write") /\ resp[p].status = 201 /\ InsideRoot(safe_path(req[p].path)))
      => ReadReply(fs, req[p].path) = [Response(200, "") EXCEPT !.text = req[p].content]

\* C8: once two concurrent writes of c1 and c2 to one path have both
\* answered, read(p) answers c1 or c2 (contents without line ends, which a
\* read hands back as written).
C8_LastWriteWins ==
  \A p, q \in Procs :
    (/\ p # q
     /\ Answered(p, "write") /\ resp[p].status = 201
     /\ Answered(q, "write") /\ resp[q].status = 201
     /\ req[p].path = req[q].path
     /\ read_text(req[p].content) = req[p].content
     /\ read_text(req[q].content) = req[q].content)
      => ReadReply(fs, req[p].path).text \in {req[p].content, req[q].content}

\* Directories before files, each group in case-insensitive alphabetical
\* order, at every level.
RECURSIVE Ordered(_)
Ordered(nodes) ==
  /\ \A i \in 1..(Len(nodes) - 1) : ~KeyLess(nodes[i + 1], nodes[i])
  /\ \A i \in 1..Len(nodes) : Ordered(nodes[i].children)

\* C9: a listing is ordered, and it is the same whatever order the file
\* system enumerates the entries in.
C9_ListingDeterministic ==
  \A p \in Procs :
    (Answered(p, "list") /\ resp[p].status = 200)
      => /\ Ordered(resp[p].nodes)
         /\ \A enum \in Enums : ListReply(fs, req[p].path, enum) = resp[p]

\* C10: rename of a source that does not exist answers 404.
C10_RenameMissingIsNotFound ==
  \A p \in Procs :
    (Answered(p, "rename") /\ loc[p].absent) => resp[p].status = 404

\* The step on which thread p's delete answers.
DeleteAnswers(p) == pc[p] = "fs_delete" /\ pc'[p] = "done"

\* C11: after a delete(p) that succeeds, read(p) and the read of every path
\* beneath p answer NotFound and everything outside p's subtree is as it was;
\* a delete(p) of a path that does not exist answers NotFound and changes nothing.
C11_DeleteContract ==
  [][\A p \in Procs :
       DeleteAnswers(p) =>
         LET target == safe_path(req[p].path) IN
           /\ resp'[p].status = 204 =>
                /\ ReadReply(fs', req[p].path) = NotFound
                /\ \A q \in Subtree(fs, target) : ~exists(fs', q)
                /\ \A q \in DOMAIN fs \ Subtree(fs, target) : exists(fs', q) /\ fs'[q] = fs[q]
           /\ ~exists(fs, target) => (resp'[p] = NotFound /\ fs' = fs)]_vars

\* C12: on a fresh store the current revision is 0 and the revisions listed
\* are [0]; after k successful snapshot or import calls, one at a time and
\* with no other request, the i-th call returned i, the current revision is k
\* and the listing is latest = k, list = [0, 1, ..., k].
C12_RevisionListing ==
  \A p \in Procs :
    (Answered(p, "revisions") /\ calls = Len(retLog) + 1) =>
      LET k == Len(retLog) IN
        /\ \A i \in 1..k : retLog[i] = i
        /\ read_head(fs) = [ok |-> TRUE, n |-> k]
        /\ resp[p].status = 200
        /\ resp[p].id = k
        /\ resp[p].list = [i \in 1..(k + 1) |-> i - 1]

\* C12 witness: the revisions are listed after two successful allocating calls
\* and nothing else.
C12_Witness ==
  \E p \in Procs : Answered(p, "revisions") /\ calls = 3 /\ Len(retLog) = 2

\* The request of thread p is a write, rename or delete whose paths all lie
\* in the directory of revision name.
EditsWithin(p, name) ==
  /\ req[p].op \in {"write", "rename", "delete"}
  /\ Within(Append(RootDir, name), safe_path(req[p].path))
  /\ req[p].op = "rename" => Within(Append(RootDir, name), safe_path(req[p].to))

\* C13: revisions are independent copies: a step of a write, rename or
\* delete whose paths all lie inside one revision's directory leaves every
\* other revision's directory, entries and contents, as it was.
C13_RevisionsIndependent ==
  [][\A p \in Procs :
       pc[p] \in {"fs_write", "write_flush", "fs_rename", "fs_delete"} =>
         \A name \in {n \in RevisionDirs : EditsWithin(p, n)} :
         \A other \in RevisionDirs \ {name} :
           /\ Subtree(fs', Append(RootDir, other)) = Subtree(fs, Append(RootDir, other))
           /\ \A q \in Subtree(fs, Append(RootDir, other)) : fs'[q] = fs[q]]_vars

\* C13 witness: revision 0 held a with content y when snapshot() returned 1,
\* then write("0/a", "xx") was answered: revision 1 still holds y.
C13_Witness ==
  \E p \in Procs :
    /\ Answered(p, "write") /\ resp[p].status = 201
    /\ req[p].path = <<"0", "a">> /\ req[p].content = <<"x", "x">>
    /\ retLog = <<1>>
    /\ isfile(fs, RevPath(1) \o <<"a">>) /\ fs[RevPath(1) \o <<"a">>].data = <<"y">>
    /\ fs[RevPath(0) \o <<"a">>].data = <<"x", "x">>

HasAllocated(p) ==
  req[p].op = "snapshot" /\ allocLog # <<>> /\ allocLog[Len(allocLog)] = loc[p].n

\* The entries beneath base: relative path and kind.
EntrySet(f, base) == {<<e[1], e[2].isDir>> : e \in RelTree(f, base)}

\* C15: in a snapshot, HEAD is written as n before anything is copied into
\* revision n, and from then on, wherever the handler stops, HEAD is n and
\* directory n exists and holds a subset of the source's entries.
C15_HeadBeforeCopy ==
  \A p \in Procs :
    /\ (req[p].op = "snapshot" /\ pc[p] \in {"head_open", "head_write"})
         => (isdir(fs, RevPath(loc[p].n)) /\ RelTree(fs, RevPath(loc[p].n)) = {})
    /\ HasAllocated(p)
         => /\ read_head(fs) = [ok |-> TRUE, n |-> loc[p].n]
            /\ isdir(fs, RevPath(loc[p].n))
            /\ EntrySet(fs, RevPath(loc[p].n)) \subseteq EntrySet(fs, loc[p].src)

\* C15 witness: a snapshot is in the middle of its copy loop, one entry copied
\* and another still to copy.
C15_Witness ==
  \E p \in Procs :
    /\ HasAllocated(p) /\ pc[p] = "snapshot_copy"
    /\ loc[p].names # {}
    /\ RelTree(fs, RevPath(loc[p].n)) # {}

\* C16: when the directory of HEAD + 1 exists already as bump_rev comes to
\* create it, the snapshot or import fails there with the allocation conflict,
\* HEAD stays as it is and nothing is copied or extracted into the directory.
C16_ConflictLeavesStore ==
  [][\A p \in Procs :
       (pc[p] = "bump_makedirs" /\ exists(fs, RevPath(loc[p].n)))
         => /\ pc'[p] = "done"
            /\ resp'[p] = Raised("FileExistsError@bump_rev")
            /\ fs' = fs
            /\ allocLog' = allocLog]_vars

\* C16 witness: write("1/a", c) made directory 1 while HEAD was 0, and a
\* snapshot or import has then failed with the conflict.
C16_Witness ==
  \E p \in Procs :
    /\ pc[p] = "done" /\ req[p].op \in {"snapshot", "import"}
    /\ resp[p] = Raised("FileExistsError@bump_rev")
    /\ read_head(fs) = [ok |-> TRUE, n |-> 0]
    /\ isfile(fs, RevPath(1) \o <<"a">>)
    /\ RelTree(fs, RevPath(1)) = {<<(<<"a">>), fs[RevPath(1) \o <<"a">>]>>}

\* C17: whatever the interleaving of concurrent snapshots, a snapshot that
\* returns n has copied from the directory of revision n - 1.
C17_SourceIsPredecessor ==
  \A p \in Procs :
    (Answered(p, "snapshot") /\ resp[p].status = 200)
      => loc[p].src = RevPath(resp[p].id - 1)

\* C18: when only snapshots run, every snapshot that has returned has left a
\* revision whose files and contents are those of revision 0.
C18_SnapshotsEqualRevisionZero ==
  \A p \in Procs :
    (Answered(p, "snapshot") /\ resp[p].status = 200)
      => RelTree(fs, RevPath(resp[p].id)) = RelTree(fs, RevPath(0))

\* C19: a rename whose source does not exist leaves the store as it was:
\* nothing is created, removed or modified, the destination's parent included.
C19_FailedRenameChangesNothing ==
  [][\A p \in Procs :
       (pc[p] = "fs_rename" /\ ~exists(fs, safe_path(req[p].path)))
         => (resp'[p].status # 204 /\ fs' = fs)]_vars

====
